---- MODULE Spec2Model ----
(***************************************************************************)
(* A model of the StyLua VS Code extension's binary resolution, version    *)
(* reconciliation and acquisition engine (download.ts, github.ts,          *)
(* utilities.ts, stylua.ts, extension.ts).                                 *)
(*                                                                         *)
(* Strings are sequences of one-character strings, so that startsWith,     *)
(* slice and trim are computed as the code computes them.                  *)
(***************************************************************************)
EXTENDS Integers, Sequences, FiniteSets, TLC

VARIABLES
    probe,                  \* the last call of a pure function: its name, input and result
    configuration,          \* the workspace configuration section "stylua"
    env,                    \* the binaries outside the storage directory
    disk,                   \* the file at the storage path
    writers,                \* the write streams open on the storage path
    clobbered,              \* a stream was opened while another was writing
    authenticated,          \* Credential: a session id and token are held
    reauthenticating,       \* authenticate(false) calls of the session handler in flight
    statusBarUpdateItem,    \* StyluaDownloader.statusBarUpdateItem
    prompts,                \* an incorrect-version prompt is open
    styluaBinaryPath,       \* activate's styluaBinaryPath
    registered,             \* activate has registered the commands and handlers
    configurationChanged,   \* a configuration change not yet handled
    triggers,               \* the commands invoked since activation
    flows                   \* the asynchronous flows: position and locals of each

mainVars ==
    <<configuration, env, disk, writers, clobbered, authenticated, reauthenticating,
      statusBarUpdateItem, prompts, styluaBinaryPath, registered, configurationChanged,
      triggers, flows>>

vars == <<probe, mainVars>>

NoProbe == [op |-> "none"]

(***************************************************************************)
(* Strings                                                                 *)
(***************************************************************************)
EmptyStr == << >>

\* String.prototype.startsWith
StartsWith(s, p) ==
    /\ Len(p) <= Len(s)
    /\ \A i \in 1..Len(p) : s[i] = p[i]

\* String.prototype.slice(n) for 0 <= n
Slice(s, n) == IF n >= Len(s) THEN EmptyStr ELSE SubSeq(s, n + 1, Len(s))

S_v == <<"v">>
S_latest == <<"l", "a", "t", "e", "s", "t">>
S_styluaSpace == <<"s", "t", "y", "l", "u", "a", " ">>
S_stylua == <<"s", "t", "y", "l", "u", "a">>
S_zip == <<"z", "i", "p">>
S_url == <<"u">>
S_tag2 == <<"v", "2", ".", "0", ".", "0">>
S_tag1 == <<"v", "1", ".", "9", ".", "0">>
S_tag0 == <<"v", "1", ".", "8", ".", "0">>
S_assetLinux == <<"s", "t", "y", "l", "u", "a", "-", "l", "i", "n", "u", "x", "-", "x", "8", "6", "_", "6", "4", ".", "z", "i", "p">>
S_assetMacos == <<"s", "t", "y", "l", "u", "a", "-", "m", "a", "c", "o", "s", "-", "x", "8", "6", "_", "6", "4", ".", "z", "i", "p">>
S_assetLegacyWin64 == <<"s", "t", "y", "l", "u", "a", "-", "1", ".", "8", ".", "0", "-", "w", "i", "n", "6", "4", ".", "z", "i", "p">>

\* the value of an absent optional (undefined); no string equals it
Undefined == <<"undefined">>

\* JavaScript truthiness of a string | undefined
Truthy(s) == s # Undefined /\ s # EmptyStr

Whitespace == {" ", "\n"}

\* String.prototype.trim
RECURSIVE TrimStart(_)
TrimStart(s) ==
    IF s # EmptyStr /\ Head(s) \in Whitespace THEN TrimStart(Tail(s)) ELSE s

RECURSIVE TrimEnd(_)
TrimEnd(s) ==
    IF s # EmptyStr /\ s[Len(s)] \in Whitespace
    THEN TrimEnd(SubSeq(s, 1, Len(s) - 1)) ELSE s

Trim(s) == TrimEnd(TrimStart(s))

\* String.prototype.indexOf, counted from 1; 0 when absent
IndexOf(s, c) ==
    IF \E i \in 1..Len(s) : s[i] = c
    THEN CHOOSE i \in 1..Len(s) : s[i] = c /\ \A j \in 1..(i - 1) : s[j] # c
    ELSE 0

\* String.prototype.split on a one-character separator
RECURSIVE Split(_, _)
Split(s, c) ==
    LET i == IndexOf(s, c) IN
    IF i = 0 THEN <<s>>
    ELSE <<SubSeq(s, 1, i - 1)>> \o Split(Slice(s, i), c)

\* the characters of the model's strings, in code-unit order
Alphabet ==
    <<" ", "+", "-", ".", "0", "1", "2", "3", "4", "5", "6", "7", "8", "9", "_",
      "a", "b", "c", "d", "e", "f", "g", "h", "i", "j", "k", "l", "m",
      "n", "o", "p", "q", "r", "s", "t", "u", "v", "w", "x", "y", "z">>

CharCode(c) == CHOOSE i \in 1..Len(Alphabet) : Alphabet[i] = c

DigitChars == {"0", "1", "2", "3", "4", "5", "6", "7", "8", "9"}
LetterChars == {"a", "b", "c", "d", "e", "f", "g", "h", "i", "j", "k", "l", "m", "n", "o", "p", "q", "r", "s", "t", "u", "v", "w", "x", "y", "z"}

IsString(s) ==
    /\ DOMAIN s = 1..Len(s)
    /\ \A i \in 1..Len(s) : \E n \in 1..Len(Alphabet) : Alphabet[n] = s[i]

IsDigits(s) == s # EmptyStr /\ \A i \in 1..Len(s) : s[i] \in DigitChars

RECURSIVE NumberOf(_)
NumberOf(ds) ==
    IF ds = EmptyStr THEN 0
    ELSE 10 * NumberOf(SubSeq(ds, 1, Len(ds) - 1)) + (CharCode(ds[Len(ds)]) - CharCode("0"))

\* the < of two strings: by code units, a proper prefix first
RECURSIVE StringLess(_, _)
StringLess(a, b) ==
    IF b = EmptyStr THEN FALSE
    ELSE IF a = EmptyStr THEN TRUE
    ELSE IF Head(a) = Head(b) THEN StringLess(Tail(a), Tail(b))
    ELSE CharCode(Head(a)) < CharCode(Head(b))

(***************************************************************************)
(* The semver library as the reconciler calls it                           *)
(***************************************************************************)
\* NUMERICIDENTIFIER: 0|[1-9]\d*
NumericIdentifier(s) == IsDigits(s) /\ (Len(s) > 1 => s[1] # "0")

\* PRERELEASEIDENTIFIER: a numeric identifier, or \d*[a-zA-Z-][a-zA-Z0-9-]*
PrereleaseIdentifier(s) ==
    /\ s # EmptyStr
    /\ \A i \in 1..Len(s) : s[i] \in DigitChars \cup LetterChars \cup {"-"}
    /\ IsDigits(s) => NumericIdentifier(s)

\* BUILDIDENTIFIER: [a-zA-Z0-9-]+
BuildIdentifier(s) ==
    /\ s # EmptyStr
    /\ \A i \in 1..Len(s) : s[i] \in DigitChars \cup LetterChars \cup {"-"}

NoSemVer == [ok |-> FALSE]

\* new SemVer(version) after the FULL pattern ^v?M.m.p(-pre)?(+build)?$ matched
\* version.trim(): numeric prerelease identifiers become numbers
\* semver.parse: null instead of a throw
SemverParse(version) ==
    IF version = Undefined THEN NoSemVer
    ELSE
    LET t == Trim(version)
        u == IF StartsWith(t, <<"v">>) THEN Slice(t, 1) ELSE t
        plus == IndexOf(u, "+")
        mainpre == IF plus = 0 THEN u ELSE SubSeq(u, 1, plus - 1)
        build == IF plus = 0 THEN << >> ELSE Split(Slice(u, plus), ".")
        dash == IndexOf(mainpre, "-")
        core == Split(IF dash = 0 THEN mainpre ELSE SubSeq(mainpre, 1, dash - 1), ".")
        pre == IF dash = 0 THEN << >> ELSE Split(Slice(mainpre, dash), ".")
    IN  IF /\ Len(core) = 3
           /\ \A i \in 1..3 : NumericIdentifier(core[i])
           /\ \A i \in 1..Len(pre) : PrereleaseIdentifier(pre[i])
           /\ \A i \in 1..Len(build) : BuildIdentifier(build[i])
        THEN [ok |-> TRUE,
              major |-> NumberOf(core[1]),
              minor |-> NumberOf(core[2]),
              patch |-> NumberOf(core[3]),
              prerelease |-> [i \in 1..Len(pre) |->
                                IF IsDigits(pre[i])
                                THEN [num |-> TRUE, n |-> NumberOf(pre[i])]
                                ELSE [num |-> FALSE, s |-> pre[i]]]]
        ELSE NoSemVer

\* the digits from position i on
RECURSIVE DigitRun(_, _)
DigitRun(s, i) ==
    IF i <= Len(s) /\ s[i] \in DigitChars THEN <<s[i]>> \o DigitRun(s, i + 1) ELSE EmptyStr

\* semver.coerce: the leftmost \d+(\.\d+)?(\.\d+)? of the string, missing
\* parts read as 0, then parsed
SemverCoerce(version) ==
    IF version = Undefined \/ ~\E i \in 1..Len(version) : version[i] \in DigitChars
    THEN NoSemVer
    ELSE
    LET first == CHOOSE i \in 1..Len(version) :
                    /\ version[i] \in DigitChars
                    /\ \A j \in 1..(i - 1) : version[j] \notin DigitChars
        major == DigitRun(version, first)
        afterMajor == first + Len(major)
        minor == IF afterMajor <= Len(version) /\ version[afterMajor] = "."
                 THEN DigitRun(version, afterMajor + 1) ELSE EmptyStr
        afterMinor == afterMajor + 1 + Len(minor)
        patch == IF minor # EmptyStr /\ afterMinor <= Len(version) /\ version[afterMinor] = "."
                 THEN DigitRun(version, afterMinor + 1) ELSE EmptyStr
        zero == <<"0">>
    IN  SemverParse(major \o <<".">> \o (IF minor = EmptyStr THEN zero ELSE minor)
                          \o <<".">> \o (IF patch = EmptyStr THEN zero ELSE patch))

\* compareIdentifiers of identifiers.js
CompareIdentifiers(a, b) ==
    IF a.num /\ b.num THEN (IF a.n = b.n THEN 0 ELSE IF a.n < b.n THEN -1 ELSE 1)
    ELSE IF a.num THEN -1
    ELSE IF b.num THEN 1
    ELSE IF a.s = b.s THEN 0
    ELSE IF StringLess(a.s, b.s) THEN -1 ELSE 1

\* SemVer.compareMain
CompareMain(a, b) ==
    IF a.major # b.major THEN (IF a.major < b.major THEN -1 ELSE 1)
    ELSE IF a.minor # b.minor THEN (IF a.minor < b.minor THEN -1 ELSE 1)
    ELSE IF a.patch # b.patch THEN (IF a.patch < b.patch THEN -1 ELSE 1)
    ELSE 0

\* SemVer.comparePre: a release is greater than its prereleases
RECURSIVE ComparePreFrom(_, _, _)
ComparePreFrom(a, b, i) ==
    IF i > Len(a) /\ i > Len(b) THEN 0
    ELSE IF i > Len(b) THEN 1
    ELSE IF i > Len(a) THEN -1
    ELSE IF CompareIdentifiers(a[i], b[i]) = 0 THEN ComparePreFrom(a, b, i + 1)
    ELSE CompareIdentifiers(a[i], b[i])

ComparePre(a, b) ==
    IF Len(a.prerelease) > 0 /\ Len(b.prerelease) = 0 THEN -1
    ELSE IF Len(a.prerelease) = 0 /\ Len(b.prerelease) > 0 THEN 1
    ELSE ComparePreFrom(a.prerelease, b.prerelease, 1)

\* SemVer.compare
SemverCompare(a, b) ==
    IF CompareMain(a, b) # 0 THEN CompareMain(a, b) ELSE ComparePre(a, b)

\* semver.neq
SemverNeq(a, b) == SemverCompare(a, b) # 0

(***************************************************************************)
(* JSON values, as response.json() yields them                             *)
(***************************************************************************)
JNull == [t |-> "null"]
JUndefined == [t |-> "undefined"]
JNum == [t |-> "num"]
JBool == [t |-> "bool"]
JStr(s) == [t |-> "str", v |-> s]
JArr(a) == [t |-> "arr", v |-> a]
JObj(o) == [t |-> "obj", v |-> o]

\* typeof x === "object": null, arrays and plain objects
TypeofObject(j) == j.t \in {"null", "arr", "obj"}

\* the property read x.k of a value that is neither null nor undefined
GetProp(j, k) ==
    IF j.t = "obj" /\ k \in DOMAIN j.v THEN j.v[k] ELSE JUndefined

\* typeof x === "string" ? x : ""
StringOrEmpty(j) == IF j.t = "str" THEN j.v ELSE EmptyStr

Thrown(name) == [thrown |-> TRUE, error |-> name]
Returned(value) == [thrown |-> FALSE, value |-> value]

EmptyRelease == [assets |-> << >>, htmlUrl |-> EmptyStr, tagName |-> EmptyStr]

\* the callback of json.assets.map: reading a property of null is a TypeError
AssetFromJson(asset) ==
    [downloadUrl |-> StringOrEmpty(GetProp(asset, "browser_download_url")),
     name |-> StringOrEmpty(GetProp(asset, "name"))]

releaseFromJson(json) ==
    IF ~TypeofObject(json) THEN Returned(EmptyRelease)
    ELSE IF json.t = "null" THEN Thrown("TypeError")
    ELSE LET assets == GetProp(json, "assets") IN
         IF assets.t = "arr" /\ \E i \in 1..Len(assets.v) : assets.v[i].t = "null"
         THEN Thrown("TypeError")
         ELSE Returned(
            [assets |-> IF assets.t = "arr"
                        THEN [i \in 1..Len(assets.v) |-> AssetFromJson(assets.v[i])]
                        ELSE << >>,
             htmlUrl |-> StringOrEmpty(GetProp(json, "html_url")),
             tagName |-> StringOrEmpty(GetProp(json, "tag_name"))])

\* the parsing half of getAllReleases: the response body already fetched
releasesFromJson(json) ==
    IF json.t # "arr" THEN Returned(<< >>)
    ELSE IF \E i \in 1..Len(json.v) : releaseFromJson(json.v[i]).thrown
    THEN Thrown("TypeError")
    ELSE Returned([i \in 1..Len(json.v) |-> releaseFromJson(json.v[i]).value])

(***************************************************************************)
(* utilities.ts                                                            *)
(***************************************************************************)
\* whether lit occurs in s at position i
HasAt(s, i, lit) ==
    /\ i >= 1
    /\ i + Len(lit) - 1 <= Len(s)
    /\ \A n \in 1..Len(lit) : s[i + n - 1] = lit[n]

\* a platformPattern that admits the fragments of every platform
PlatformPattern_AnyPlatform(platform) ==
    {<<"w", "i", "n", "d", "o", "w", "s">>, <<"w", "i", "n", "6", "4">>,
     <<"l", "i", "n", "u", "x">>, <<"m", "a", "c", "o", "s">>}

\* the alternatives of platformPattern and the text of architecturePattern
PlatformPattern(platform) ==
    CASE platform = "win32" -> {<<"w", "i", "n", "d", "o", "w", "s">>, <<"w", "i", "n", "6", "4">>}
      [] platform = "linux" -> {<<"l", "i", "n", "u", "x">>}
      [] platform = "darwin" -> {<<"m", "a", "c", "o", "s">>}

ArchitecturePattern(architecture) ==
    CASE architecture = "arm64" -> <<"a", "a", "r", "c", "h", "6", "4">>
      [] architecture = "x64" -> <<"x", "8", "6", "_", "6", "4">>
      [] OTHER -> EmptyStr

getAssetFilenamePatternForPlatform(platform, architecture) ==
    [platform |-> PlatformPattern(platform), architecture |-> ArchitecturePattern(architecture)]

\* the class [\dw\-\.]
VersionClass == DigitChars \cup {"w", "-", "."}

\* RegExp.test of stylua(-[\dw\-\.]+)?-<platform>(-<architecture>)?.zip : an
\* unanchored search; the . before zip is any character but a line break
PatternTest(pattern, name) ==
    \E i \in 1..Len(name) :
        /\ HasAt(name, i, S_stylua)
        /\ \E k \in 0..Len(name) :
            /\ k # 0 => /\ k >= 2
                        /\ HasAt(name, i + 6, <<"-">>)
                        /\ i + 6 + k - 1 <= Len(name)
                        /\ \A n \in (i + 7)..(i + 6 + k - 1) : name[n] \in VersionClass
            /\ HasAt(name, i + 6 + k, <<"-">>)
            /\ \E plat \in pattern.platform :
                /\ HasAt(name, i + 7 + k, plat)
                /\ \E m \in {0, 1 + Len(pattern.architecture)} :
                    LET j == i + 7 + k + Len(plat) IN
                    /\ m # 0 => HasAt(name, j, <<"-">> \o pattern.architecture)
                    /\ j + m <= Len(name)
                    /\ name[j + m] # "\n"
                    /\ HasAt(name, j + m + 1, S_zip)

\* the configuration read by getDesiredVersion
getDesiredVersion(styluaConfiguration) ==
    LET targetVersion == Trim(styluaConfiguration.targetReleaseVersion) IN
    IF Len(targetVersion) = 0
    THEN (IF styluaConfiguration.releaseVersion = Undefined THEN S_latest
          ELSE styluaConfiguration.releaseVersion)
    ELSE targetVersion

(***************************************************************************)
(* github.ts: the release client over the remote's responses               *)
(***************************************************************************)
JsonAsset(name) == JObj([name |-> JStr(name), browser_download_url |-> JStr(S_url)])

JsonRelease(tag, assets) ==
    JObj([tag_name |-> JStr(tag), html_url |-> JStr(S_url), assets |-> JArr(assets)])

\* the release history the remote serves, newest first
RemoteReleases ==
    JArr(<<JsonRelease(S_tag2, <<JsonAsset(S_assetMacos), JsonAsset(S_assetLinux)>>),
           JsonRelease(S_tag1, <<JsonAsset(S_assetLinux)>>),
           JsonRelease(S_tag0, <<JsonAsset(S_assetLegacyWin64)>>)>>)

RemoteLatest == RemoteReleases.v[1]

\* the body of a rate-limited response: an object with a message
RateLimitedBody == JObj([message |-> JStr(<<"x">>)])

\* what a request can come to: a body of the remote, the rate-limit body,
\* or a rejected fetch (network down, a body that is not JSON)
FetchOutcomes == {"ok", "rateLimited", "throw"}

\* fetchJson: the body whatever the response's status
fetchJson(body, outcome) ==
    CASE outcome = "ok" -> Returned(body)
      [] outcome = "rateLimited" -> Returned(RateLimitedBody)
      [] OTHER -> Thrown("FetchError")

getAllReleases(outcome) ==
    LET json == fetchJson(RemoteReleases, outcome) IN
    IF json.thrown THEN json ELSE releasesFromJson(json.value)

\* getRelease's scan with the tag compared as given, no prefix added
ScanReleases_Unprefixed(version, releases) ==
    IF \E i \in 1..Len(releases) : StartsWith(releases[i].tagName, version)
    THEN Returned(releases[
            CHOOSE i \in 1..Len(releases) :
                /\ StartsWith(releases[i].tagName, version)
                /\ \A j \in 1..(i - 1) : ~StartsWith(releases[j].tagName, version)])
    ELSE Thrown("NoReleaseFoundError")

\* getRelease for a version other than "latest", after getAllReleases: the
\* prefix, the scan, and the throw
ScanReleases(version, releases) ==
    LET tag == IF StartsWith(version, S_v) THEN version ELSE S_v \o version IN
    IF \E i \in 1..Len(releases) : StartsWith(releases[i].tagName, tag)
    THEN Returned(releases[
            CHOOSE i \in 1..Len(releases) :
                /\ StartsWith(releases[i].tagName, tag)
                /\ \A j \in 1..(i - 1) : ~StartsWith(releases[j].tagName, tag)])
    ELSE Thrown("NoReleaseFoundError")

getRelease(version, outcome) ==
    IF version = S_latest
    THEN LET json == fetchJson(RemoteLatest, outcome) IN
         IF json.thrown THEN json ELSE releaseFromJson(json.value)
    ELSE LET releases == getAllReleases(outcome) IN
         IF releases.thrown THEN releases
         ELSE ScanReleases(version, releases.value)

(***************************************************************************)
(* The machine the extension runs on                                       *)
(***************************************************************************)
Platform == "linux"
Architecture == "x64"

\* child_process.exec called back with an error
ExecError == <<"error">>

NoBinary == [exists |-> FALSE, output |-> ExecError]
BrokenBinary == [exists |-> TRUE, output |-> ExecError]
WorkingBinary(output) == [exists |-> TRUE, output |-> output]

\* what the binary built from a release prints for --version
VersionOutput(tag) == S_styluaSpace \o Slice(tag, 1) \o <<"\n">>

Absent == [state |-> "absent", tag |-> EmptyStr]
Partial == [state |-> "partial", tag |-> EmptyStr]
Installed(tag) == [state |-> "binary", tag |-> tag]

\* the file at the storage path as a binary: a file being written, or cut
\* short, does not execute
DiskBinary ==
    CASE disk.state = "absent" -> NoBinary
      [] disk.state = "binary" /\ writers = 0 -> WorkingBinary(VersionOutput(disk.tag))
      [] OTHER -> BrokenBinary

BinaryAt(path) ==
    CASE path = "setting" -> env.setting
      [] path = "reactSetting" -> env.reactSetting
      [] path = "resolved" -> env.onPath
      [] OTHER -> DiskBinary

(***************************************************************************)
(* download.ts                                                             *)
(***************************************************************************)
\* getStyluaVersion without the catch: whatever the execution left is sliced
getStyluaVersion_Uncaught(binary) == Slice(Trim(binary.output), Len(S_styluaSpace))

\* getStyluaVersion slicing the output as the execution left it, untrimmed
getStyluaVersion_Untrimmed(binary) ==
    IF ~binary.exists \/ binary.output = ExecError THEN Undefined
    ELSE Slice(binary.output, Len(S_styluaSpace))

\* executeStylua(path, ["--version"]) and getStyluaVersion on its outcome
getStyluaVersion(binary) ==
    IF ~binary.exists \/ binary.output = ExecError THEN Undefined
    ELSE Slice(Trim(binary.output), Len(S_styluaSpace))

NoInfo == [paths |-> <<"none", "none">>, resolveMode |-> "none", version |-> Undefined]

\* findStylua with the search-path lookup ahead of the explicit path
findStylua_SearchFirst(settings, machine) ==
    IF /\ settings.searchBinaryInPATH
       /\ machine.onPath.exists
       /\ Truthy(getStyluaVersion(machine.onPath))
    THEN [info |-> [paths |-> <<"resolved", "resolved">>,
                    resolveMode |-> "PATH",
                    version |-> Undefined],
          searched |-> TRUE]
    ELSE IF settings.styluaPath
    THEN [info |-> [paths |-> IF settings.styluaRoactPath
                              THEN <<"setting", "reactSetting">>
                              ELSE <<"setting", "setting">>,
                    resolveMode |-> "configuration",
                    version |-> Undefined],
          searched |-> settings.searchBinaryInPATH]
    ELSE [info |-> [paths |-> <<"download", "download">>,
                    resolveMode |-> "bundled",
                    version |-> Undefined],
          searched |-> settings.searchBinaryInPATH]

\* findStylua taking whatever which found, without the version query
findStylua_Unqueried(settings, machine) ==
    IF settings.styluaPath
    THEN [info |-> [paths |-> IF settings.styluaRoactPath
                              THEN <<"setting", "reactSetting">>
                              ELSE <<"setting", "setting">>,
                    resolveMode |-> "configuration",
                    version |-> Undefined],
          searched |-> FALSE]
    ELSE IF settings.searchBinaryInPATH /\ machine.onPath.exists
    THEN [info |-> [paths |-> <<"resolved", "resolved">>,
                    resolveMode |-> "PATH",
                    version |-> Undefined],
          searched |-> TRUE]
    ELSE [info |-> [paths |-> <<"download", "download">>,
                    resolveMode |-> "bundled",
                    version |-> Undefined],
          searched |-> settings.searchBinaryInPATH]

\* findStylua, with whether it called which
findStylua(settings, machine) ==
    IF settings.styluaPath
    THEN [info |-> [paths |-> IF settings.styluaRoactPath
                              THEN <<"setting", "reactSetting">>
                              ELSE <<"setting", "setting">>,
                    resolveMode |-> "configuration",
                    version |-> Undefined],
          searched |-> FALSE]
    ELSE IF /\ settings.searchBinaryInPATH
            /\ machine.onPath.exists
            /\ Truthy(getStyluaVersion(machine.onPath))
    THEN [info |-> [paths |-> <<"resolved", "resolved">>,
                    resolveMode |-> "PATH",
                    version |-> Undefined],
          searched |-> TRUE]
    ELSE [info |-> [paths |-> <<"download", "download">>,
                    resolveMode |-> "bundled",
                    version |-> Undefined],
          searched |-> settings.searchBinaryInPATH]

\* the check with semver.coerce on both sides
IncorrectVersion_BothCoerced(version, desiredVersion) ==
    /\ Truthy(version)
    /\ desiredVersion # S_latest
    /\ SemverCoerce(desiredVersion).ok
    /\ SemverCoerce(version).ok
    /\ SemverNeq(SemverCoerce(desiredVersion), SemverCoerce(version))

\* the check of the bundled version against the requested one: whether
\* openIncorrectVersionPrompt is called
IncorrectVersion(version, desiredVersion) ==
    /\ Truthy(version)
    /\ desiredVersion # S_latest
    /\ LET desiredVersionSemver == SemverCoerce(desiredVersion)
           styluaVersionSemver == SemverParse(version)
       IN  /\ desiredVersionSemver.ok
           /\ styluaVersionSemver.ok
           /\ SemverNeq(desiredVersionSemver, styluaVersionSemver)

\* latestRelease.tagName.startsWith("v") ? latestRelease.tagName.slice(1) : latestRelease.tagName
StripVersionPrefix(tagName) ==
    IF StartsWith(tagName, S_v) THEN Slice(tagName, 1) ELSE tagName

\* the comparison against the tag as fetched, prefix and all
IsLatest_Unstripped(version, latestRelease) == version = latestRelease.tagName

\* the comparison that hides the update item
IsLatest(version, latestRelease) == version = StripVersionPrefix(latestRelease.tagName)

NoRelease == [assets |-> << >>, htmlUrl |-> Undefined, tagName |-> Undefined]

\* showUpdateAvailable and statusBarUpdateItem.hide
showUpdateAvailable(item, githubRelease) == [visible |-> TRUE, release |-> githubRelease]
hide(item) == [item EXCEPT !.visible = FALSE]

\* the first asset of the release whose name the pattern matches; 0 if none
MatchingAsset(release) ==
    LET assetFilename == getAssetFilenamePatternForPlatform(Platform, Architecture)
        matching == {i \in 1..Len(release.assets) : PatternTest(assetFilename, release.assets[i].name)}
    IN  IF matching = {} THEN 0
        ELSE CHOOSE i \in matching : \A j \in matching : i <= j

(***************************************************************************)
(* extension.ts and download.ts: the flows                                 *)
(*                                                                         *)
(* One flow per handler: activate, the stylua.reinstall command, the       *)
(* stylua.selectVersion / stylua.installUpdate commands, and the           *)
(* configuration-change handler.  A step of a flow is the code between two *)
(* awaits; steps of different flows interleave.  At most one call of each  *)
(* handler runs at a time.                                                 *)
(***************************************************************************)
FlowIds == {"activate", "reinstall", "install", "configChange"}

\* the depth the recursion of ensureStyluaExists is followed to
MaxRetries == 2
\* the commands invoked after activation; the configuration handler runs once
\* for each change the commands make
MaxTriggers == 1

IdleFlow ==
    [pc |-> "idle",
     styluaType |-> "standard",     \* ensureStyluaExists' styluaType
     passNo |-> 0,                  \* which ensureStyluaExists call of the handler
     stylua |-> NoInfo,             \* ensureStyluaExists' stylua
     settingPath |-> FALSE,         \* findStylua's settingPath, as read
     searched |-> FALSE,            \* this pass called which
     downloaded |-> FALSE,          \* this pass called downloadStyluaVisual
     error |-> "none",              \* the error message this pass showed
     retries |-> 0,                 \* depth of the recursion after authenticate
     latest |-> NoRelease,          \* latestRelease
     returned |-> NoInfo,           \* what ensureStyluaExists returned
     version |-> Undefined,         \* downloadStylua's version
     from |-> "none",               \* who awaits downloadStyluaVisual
     release |-> NoRelease,         \* downloadStylua's release
     acquisition |-> "none",        \* the promise of downloadStylua
     matched |-> FALSE,             \* an asset matched the pattern
     diskBefore |-> Absent,         \* the storage path when downloadStylua was called
     fault |-> "none",              \* what went wrong in the stream
     update |-> Undefined,          \* the targetReleaseVersion to write afterwards
     after |-> {},                  \* the handlers whose call ran when this one began
     overtaken |-> FALSE]           \* a call begun later has assigned styluaBinaryPath

\* a call of ensureStyluaExists(cwd, styluaType)
StartPass(flow, styluaType, passNo) ==
    [flow EXCEPT !.pc = "find", !.styluaType = styluaType, !.passNo = passNo,
                 !.stylua = NoInfo, !.settingPath = FALSE, !.searched = FALSE,
                 !.downloaded = FALSE, !.error = "none", !.retries = 0,
                 !.latest = NoRelease, !.returned = NoInfo]

\* a call of downloadStyluaVisual(version): getRelease is awaited
StartDownload(flow, version, from) ==
    [flow EXCEPT !.pc = "dlRelease", !.version = version, !.from = from,
                 !.release = NoRelease, !.acquisition = "pending", !.matched = FALSE,
                 !.diskBefore = disk, !.fault = "none"]

\* ensureStyluaExists returns
Return(flow, info) == [flow EXCEPT !.pc = "return", !.returned = info]

\* the handler's promise is rejected: the call is over, and activate has not
\* registered its commands
Reject(f, flow) ==
    [IdleFlow EXCEPT !.pc = "failed", !.acquisition = flow.acquisition,
                     !.matched = flow.matched, !.fault = flow.fault]

\* downloadStylua's promise is resolved: whoever awaits it goes on
Resolved(flow) ==
    LET done == [flow EXCEPT !.acquisition = "completed"] IN
    CASE flow.from = "pass" -> [done EXCEPT !.pc = "version"]
      [] flow.from = "reinstall" -> StartPass(done, "standard", 1)
      [] OTHER -> [done EXCEPT !.pc = "update"]

\* downloadStylua's promise is rejected: nobody catches it
Rejected(f, flow) == Reject(f, [flow EXCEPT !.acquisition = "failed"])

PathOf(flow) == flow.stylua.paths[IF flow.styluaType = "standard" THEN 1 ELSE 2]

\* the last call of the handler is over: returned or rejected
Over(f) == flows[f].pc \in {"idle", "failed"}

\* the handlers that assign styluaBinaryPath
Resolvers == {"activate", "reinstall", "configChange"}

\* a call of the handler is between its first await and its end
Running(f) == flows[f].pc \notin {"idle", "failed", "done", "hung"}

\* handler f is called: its call begins after those that run
Called(f, call) ==
    [g \in FlowIds |->
        IF g = f
        THEN [call EXCEPT !.after = {h \in Resolvers \ {f} : Running(h)}]
        ELSE [flows[g] EXCEPT !.after = @ \ {f}]]

\* styluaBinaryPath = await ...ensureStyluaExists(...) in handler f, which
\* goes on as next: the calls that began before f's and still await
\* something are overtaken (one whose pass has returned assigns at once)
Assigned(f, next) ==
    [g \in FlowIds |->
        IF g = f THEN next
        ELSE IF g \in flows[f].after /\ Running(g) /\ flows[g].pc # "return"
        THEN [flows[g] EXCEPT !.overtaken = TRUE]
        ELSE flows[g]]

\* ensureStyluaExists: findStylua and the switch on the resolve mode
FindStylua(f) ==
    /\ flows[f].pc = "find"
    /\ LET found == findStylua(configuration, env) IN
       flows' = [flows EXCEPT ![f] =
            [@ EXCEPT !.pc = IF found.info.resolveMode = "PATH" THEN "version" ELSE "exists",
                      !.stylua = found.info,
                      !.settingPath = configuration.styluaPath,
                      !.searched = found.searched,
                      !.downloaded = FALSE,
                      !.error = "none"]]
    /\ UNCHANGED <<probe, env, configuration, disk, writers, clobbered, authenticated,
                   reauthenticating, statusBarUpdateItem, prompts,
                   styluaBinaryPath, registered, configurationChanged, triggers>>

\* fileExists(path) followed by a download in the Bundled case although the
\* file is there
AfterFileExists_Redownload(flow, exists) ==
    IF flow.stylua.resolveMode = "bundled" THEN [flow EXCEPT !.pc = "download"]
    ELSE IF exists THEN [flow EXCEPT !.pc = "version"]
    ELSE Return([flow EXCEPT !.error = "The path given for StyLua does not exist"], NoInfo)

\* fileExists(path) followed by a download whatever the resolve mode
AfterFileExists_Fallback(flow, exists) ==
    IF exists THEN [flow EXCEPT !.pc = "version"]
    ELSE [flow EXCEPT !.pc = "download"]

\* what follows fileExists(path) in the Bundled and Configuration cases
AfterFileExists(flow, exists) ==
    IF exists THEN [flow EXCEPT !.pc = "version"]
    ELSE IF flow.stylua.resolveMode = "bundled" THEN [flow EXCEPT !.pc = "download"]
    ELSE Return([flow EXCEPT !.error = "The path given for StyLua does not exist"], NoInfo)

FileExists(f) ==
    /\ flows[f].pc = "exists"
    /\ flows' = [flows EXCEPT ![f] = AfterFileExists(@, BinaryAt(PathOf(@)).exists)]
    /\ UNCHANGED <<probe, env, configuration, disk, writers, clobbered, authenticated,
                   reauthenticating, statusBarUpdateItem, prompts,
                   styluaBinaryPath, registered, configurationChanged, triggers>>

\* createDirectory is done: downloadStyluaVisual(getDesiredVersion())
DownloadMissing(f) ==
    /\ flows[f].pc = "download"
    /\ flows' = [flows EXCEPT ![f] =
            StartDownload([@ EXCEPT !.downloaded = TRUE],
                          getDesiredVersion(configuration), "pass")]
    /\ UNCHANGED <<probe, env, configuration, disk, writers, clobbered, authenticated,
                   reauthenticating, statusBarUpdateItem, prompts,
                   styluaBinaryPath, registered, configurationChanged, triggers>>

\* downloadStylua after getRelease: the scan of the assets, and on the first
\* match createWriteStream, which truncates the file at the storage path
DownloadRelease(f) ==
    /\ flows[f].pc = "dlRelease"
    /\ \E outcome \in FetchOutcomes :
        LET release == getRelease(flows[f].version, outcome) IN
        IF release.thrown
        THEN /\ flows' = [flows EXCEPT ![f] = Rejected(f, @)]
             /\ UNCHANGED <<disk, writers, clobbered>>
        ELSE IF MatchingAsset(release.value) = 0
        THEN /\ flows' = [flows EXCEPT ![f] = Resolved([@ EXCEPT !.release = release.value])]
             /\ UNCHANGED <<disk, writers, clobbered>>
        ELSE /\ flows' = [flows EXCEPT ![f] =
                    [@ EXCEPT !.pc = "dlStream", !.release = release.value, !.matched = TRUE]]
             /\ disk' = Partial
             /\ writers' = writers + 1
             /\ clobbered' = (writers > 0)
    /\ UNCHANGED <<probe, env, configuration, authenticated, reauthenticating,
                   statusBarUpdateItem, prompts, styluaBinaryPath, registered,
                   configurationChanged, triggers>>

\* how the fetch of the asset, the unzip stream and the write stream end
StreamOutcomes == {"finish", "writeError", "fetchError", "unzipError", "noEntry"}

\* the promise around fetch(...).then(...).then(...): resolved by the write
\* stream's finish, rejected by its error, and otherwise never settled
DownloadStream(f) ==
    /\ flows[f].pc = "dlStream"
    /\ \E outcome \in StreamOutcomes :
        CASE outcome = "finish" ->
                /\ flows' = [flows EXCEPT ![f] = Resolved(@)]
                /\ writers' = writers - 1
                /\ disk' \in IF clobbered \/ writers > 1
                             THEN {Partial, Installed(flows[f].release.tagName)}
                             ELSE {Installed(flows[f].release.tagName)}
                /\ UNCHANGED clobbered
          [] outcome = "writeError" ->
                /\ flows' = [flows EXCEPT ![f] = Rejected(f, [@ EXCEPT !.fault = outcome])]
                /\ writers' = writers - 1
                /\ UNCHANGED <<disk, clobbered>>
          [] OTHER ->
                /\ flows' = [flows EXCEPT ![f] =
                        [IdleFlow EXCEPT !.pc = "hung", !.acquisition = "pending",
                                         !.matched = TRUE, !.fault = outcome]]
                /\ UNCHANGED <<disk, writers, clobbered>>
    /\ UNCHANGED <<probe, env, configuration, authenticated, reauthenticating,
                   statusBarUpdateItem, prompts, styluaBinaryPath, registered,
                   configurationChanged, triggers>>

\* the Bundled case going on to the update check whatever disableVersionCheck is
QueryVersion_AlwaysChecks(f) ==
    /\ flows[f].pc = "version"
    /\ LET version == getStyluaVersion(BinaryAt(PathOf(flows[f])))
           stylua == [flows[f].stylua EXCEPT !.version = version]
       IN  IF stylua.resolveMode = "bundled"
           THEN /\ prompts' = (prompts \/ IncorrectVersion(version, getDesiredVersion(configuration)))
                /\ flows' = [flows EXCEPT ![f] = [@ EXCEPT !.pc = "latest", !.stylua = stylua]]
                /\ UNCHANGED statusBarUpdateItem
           ELSE /\ flows' = [flows EXCEPT ![f] = Return([@ EXCEPT !.stylua = stylua], stylua)]
                /\ UNCHANGED <<prompts, statusBarUpdateItem>>
    /\ UNCHANGED <<probe, env, configuration, disk, writers, clobbered, authenticated,
                   reauthenticating, styluaBinaryPath, registered,
                   configurationChanged, triggers>>

\* after getStyluaVersion in the Bundled case: the version check against the
\* requested version, then the update check or its suppression
QueryVersion(f) ==
    /\ flows[f].pc = "version"
    /\ LET version == getStyluaVersion(BinaryAt(PathOf(flows[f])))
           stylua == [flows[f].stylua EXCEPT !.version = version]
       IN  IF stylua.resolveMode = "bundled"
           THEN /\ prompts' = (prompts \/ IncorrectVersion(version, getDesiredVersion(configuration)))
                /\ IF configuration.disableVersionCheck
                   THEN /\ statusBarUpdateItem' = hide(statusBarUpdateItem)
                        /\ flows' = [flows EXCEPT ![f] = Return([@ EXCEPT !.stylua = stylua], stylua)]
                   ELSE /\ flows' = [flows EXCEPT ![f] = [@ EXCEPT !.pc = "latest", !.stylua = stylua]]
                        /\ UNCHANGED statusBarUpdateItem
           ELSE /\ flows' = [flows EXCEPT ![f] = Return([@ EXCEPT !.stylua = stylua], stylua)]
                /\ UNCHANGED <<prompts, statusBarUpdateItem>>
    /\ UNCHANGED <<probe, env, configuration, disk, writers, clobbered, authenticated,
                   reauthenticating, styluaBinaryPath, registered,
                   configurationChanged, triggers>>

\* after getRelease("latest"): hide or show the update item; on a throw the
\* warning, and the offer to authenticate when no credential is held
LatestRelease(f) ==
    /\ flows[f].pc = "latest"
    /\ \E outcome \in FetchOutcomes :
        LET latestRelease == getRelease(S_latest, outcome) IN
        IF latestRelease.thrown
        THEN /\ flows' = [flows EXCEPT ![f] =
                    IF ~authenticated
                    THEN [@ EXCEPT !.pc = "authPrompt", !.error = "Error checking the selected StyLua version"]
                    ELSE Return([@ EXCEPT !.error = "Error checking the selected StyLua version"], @.stylua)]
             /\ UNCHANGED statusBarUpdateItem
        ELSE /\ statusBarUpdateItem' =
                    IF IsLatest(flows[f].stylua.version, latestRelease.value)
                    THEN hide(statusBarUpdateItem)
                    ELSE showUpdateAvailable(statusBarUpdateItem, latestRelease.value)
             /\ flows' = [flows EXCEPT ![f] =
                    Return([@ EXCEPT !.latest = latestRelease.value], @.stylua)]
    /\ UNCHANGED <<probe, env, configuration, disk, writers, clobbered, authenticated,
                   reauthenticating, prompts, styluaBinaryPath, registered,
                   configurationChanged, triggers>>

\* the answer to "Authenticating with GitHub can fix rate limits."
AuthenticatePrompt(f) ==
    /\ flows[f].pc = "authPrompt"
    /\ \E option \in {"Authenticate with GitHub", "dismissed"} :
        flows' = [flows EXCEPT ![f] =
            IF option = "Authenticate with GitHub" /\ flows[f].retries < MaxRetries
            THEN [@ EXCEPT !.pc = "authenticating"]
            ELSE Return(@, @.stylua)]
    /\ UNCHANGED <<probe, env, configuration, disk, writers, clobbered, authenticated,
                   reauthenticating, statusBarUpdateItem, prompts,
                   styluaBinaryPath, registered, configurationChanged, triggers>>

\* how authentication.getSession("github", SCOPES, {createIfNone}) ends
SessionOutcomes == {"session", "declined", "error"}

\* GitHub.authenticate(create) after getSession: the credential held afterwards
authenticate(outcome, held) ==
    CASE outcome = "session" -> TRUE
      [] outcome = "declined" -> FALSE
      [] OTHER -> held

\* the pass rejected when authenticate yields false
Authenticate_Unrecovered(f) ==
    /\ flows[f].pc = "authenticating"
    /\ \E outcome \in SessionOutcomes :
        /\ authenticated' = authenticate(outcome, authenticated)
        /\ flows' = [flows EXCEPT ![f] =
                IF authenticated'
                THEN [StartPass(@, "standard", @.passNo) EXCEPT !.retries = flows[f].retries + 1]
                ELSE Reject(f, @)]
    /\ UNCHANGED <<probe, env, configuration, disk, writers, clobbered,
                   reauthenticating, statusBarUpdateItem, prompts,
                   styluaBinaryPath, registered, configurationChanged, triggers>>

\* if (await this.github.authenticate()) return this.ensureStyluaExists(cwd)
Authenticate(f) ==
    /\ flows[f].pc = "authenticating"
    /\ \E outcome \in SessionOutcomes :
        /\ authenticated' = authenticate(outcome, authenticated)
        /\ flows' = [flows EXCEPT ![f] =
                IF authenticated'
                THEN [StartPass(@, "standard", @.passNo) EXCEPT !.retries = flows[f].retries + 1]
                ELSE Return(@, @.stylua)]
    /\ UNCHANGED <<probe, env, configuration, disk, writers, clobbered,
                   reauthenticating, statusBarUpdateItem, prompts,
                   styluaBinaryPath, registered, configurationChanged, triggers>>

\* the handler after ensureStyluaExists returned: activate and stylua.reinstall
\* assign styluaBinaryPath, run the React pass, then setStyluaInfo; the
\* configuration handler assigns and calls setStyluaInfo at once
Continue(f) ==
    /\ flows[f].pc = "return"
    /\ IF f = "configChange"
       THEN /\ styluaBinaryPath' = flows[f].returned
            /\ flows' = Assigned(f, IdleFlow)
            /\ UNCHANGED registered
       ELSE IF flows[f].passNo = 1
       THEN /\ styluaBinaryPath' = flows[f].returned
            /\ flows' = Assigned(f, StartPass(flows[f], "react", 2))
            /\ UNCHANGED registered
       ELSE /\ registered' = TRUE
            /\ flows' = [flows EXCEPT ![f] =
                    [IdleFlow EXCEPT !.pc = IF f = "activate" THEN "done" ELSE "idle"]]
            /\ UNCHANGED styluaBinaryPath
    /\ UNCHANGED <<probe, env, configuration, disk, writers, clobbered, authenticated,
                   reauthenticating, statusBarUpdateItem, prompts,
                   configurationChanged, triggers>>

\* the stylua.reinstall command: from the palette, or from the Install button
\* of the incorrect-version prompt
Reinstall ==
    /\ registered
    /\ Over("reinstall")
    /\ triggers < MaxTriggers
    /\ triggers' = triggers + 1
    /\ \E via \in {"palette", "prompt"} :
        /\ via = "prompt" => prompts
        /\ prompts' = (prompts /\ via # "prompt")
    /\ flows' = Called("reinstall",
            StartDownload(IdleFlow, getDesiredVersion(configuration), "reinstall"))
    /\ UNCHANGED <<probe, env, configuration, disk, writers, clobbered, authenticated,
                   reauthenticating, statusBarUpdateItem, styluaBinaryPath,
                   registered, configurationChanged>>

\* the stylua.authenticate command: github.authenticate() after getSession
AuthenticateCommand ==
    /\ registered
    /\ triggers < MaxTriggers
    /\ triggers' = triggers + 1
    /\ \E outcome \in SessionOutcomes :
        authenticated' = authenticate(outcome, authenticated)
    /\ UNCHANGED <<probe, env, configuration, disk, writers, clobbered,
                   reauthenticating, statusBarUpdateItem, prompts,
                   styluaBinaryPath, registered, configurationChanged, flows>>

\* the stylua.selectVersion command: getAllReleases is awaited
SelectVersion ==
    /\ registered
    /\ Over("install")
    /\ triggers < MaxTriggers
    /\ triggers' = triggers + 1
    /\ flows' = [flows EXCEPT !["install"] = [IdleFlow EXCEPT !.pc = "pick"]]
    /\ UNCHANGED <<probe, env, configuration, disk, writers, clobbered, authenticated,
                   reauthenticating, statusBarUpdateItem, prompts,
                   styluaBinaryPath, registered, configurationChanged>>

\* versions[0] after sort(sortReleases): the greatest tag by semver.rcompare
LatestVersion(releases) ==
    CHOOSE i \in 1..Len(releases) : \A j \in 1..Len(releases) :
        SemverCompare(SemverParse(releases[i].tagName), SemverParse(releases[j].tagName)) >= 0

\* the quick pick over the releases and the download of the picked one; an
\* entry labelled "(latest)" stands for "latest"
PickVersion ==
    /\ flows["install"].pc = "pick"
    /\ \E outcome \in FetchOutcomes :
        LET allReleases == getAllReleases(outcome) IN
        IF allReleases.thrown \/ Len(allReleases.value) = 0
        THEN flows' = [flows EXCEPT !["install"] =
                [@ EXCEPT !.pc = IF allReleases.thrown THEN "failed" ELSE "idle"]]
        ELSE \E picked \in 0..Len(allReleases.value) :
            LET label == allReleases.value[picked].tagName
                latestVersion == allReleases.value[LatestVersion(allReleases.value)]
                updateConfigurationValue == IF label = latestVersion.tagName THEN S_latest ELSE label
            IN  flows' = [flows EXCEPT !["install"] =
                    IF picked = 0 THEN [@ EXCEPT !.pc = "idle"]
                    ELSE [StartDownload(@, updateConfigurationValue, "install")
                            EXCEPT !.update = updateConfigurationValue]]
    /\ UNCHANGED <<probe, env, configuration, disk, writers, clobbered, authenticated,
                   reauthenticating, statusBarUpdateItem, prompts,
                   styluaBinaryPath, registered, configurationChanged, triggers>>

\* the stylua.installUpdate command, run from the update item with its release
InstallUpdate ==
    /\ registered
    /\ statusBarUpdateItem.visible
    /\ Over("install")
    /\ triggers < MaxTriggers
    /\ triggers' = triggers + 1
    /\ \E result \in {"Update", "Release Notes", "Do not show again"} :
        CASE result = "Update" ->
                /\ flows' = [flows EXCEPT !["install"] =
                        [StartDownload(IdleFlow, statusBarUpdateItem.release.tagName, "install")
                            EXCEPT !.update = S_latest]]
                /\ UNCHANGED <<configuration, configurationChanged>>
          [] result = "Do not show again" ->
                /\ configuration' = [configuration EXCEPT !.disableVersionCheck = TRUE]
                /\ configurationChanged' = TRUE
                /\ UNCHANGED flows
          [] OTHER -> UNCHANGED <<flows, configuration, configurationChanged>>
    /\ UNCHANGED <<probe, env, disk, writers, clobbered, authenticated,
                   reauthenticating, statusBarUpdateItem, prompts,
                   styluaBinaryPath, registered>>

\* after the download of either install command: update("targetReleaseVersion", ...)
UpdateConfiguration ==
    /\ flows["install"].pc = "update"
    /\ configuration' = [configuration EXCEPT !.targetReleaseVersion = flows["install"].update]
    /\ configurationChanged' = TRUE
    /\ flows' = [flows EXCEPT !["install"] = IdleFlow]
    /\ UNCHANGED <<probe, env, disk, writers, clobbered, authenticated,
                   reauthenticating, statusBarUpdateItem, prompts,
                   styluaBinaryPath, registered, triggers>>

\* the onDidChangeConfiguration handler for a change that affects "stylua"
OnDidChangeConfiguration ==
    /\ registered
    /\ configurationChanged
    /\ Over("configChange")
    /\ configurationChanged' = FALSE
    /\ flows' = Called("configChange", StartPass(IdleFlow, "standard", 1))
    /\ UNCHANGED <<probe, env, configuration, disk, writers, clobbered, authenticated,
                   reauthenticating, statusBarUpdateItem, prompts,
                   styluaBinaryPath, registered, triggers>>

Providers == {"github", "microsoft"}

\* the session handler clearing the credential for every provider, and
\* authenticating again only for github
OnDidChangeSessions_AnyProvider ==
    /\ \E provider \in Providers :
        /\ authenticated' = FALSE
        /\ reauthenticating' = (reauthenticating \/ provider = "github")
    /\ UNCHANGED <<probe, env, configuration, disk, writers, clobbered,
                   statusBarUpdateItem, prompts, styluaBinaryPath, registered,
                   configurationChanged, triggers, flows>>

\* the onDidChangeSessions handler: for github, credential.set() and then
\* authenticate(false), whose getSession is awaited
OnDidChangeSessions ==
    /\ \E provider \in Providers :
        IF provider = "github"
        THEN /\ authenticated' = FALSE
             /\ reauthenticating' = TRUE
        ELSE UNCHANGED <<authenticated, reauthenticating>>
    /\ UNCHANGED <<probe, env, configuration, disk, writers, clobbered,
                   statusBarUpdateItem, prompts, styluaBinaryPath, registered,
                   configurationChanged, triggers, flows>>

\* authenticate(false) after getSession: the session if the provider holds
\* one, no credential otherwise
AuthenticateSilently ==
    /\ reauthenticating
    /\ \E outcome \in {"session", "none"} : authenticated' = (outcome = "session")
    /\ reauthenticating' = FALSE
    /\ UNCHANGED <<probe, env, configuration, disk, writers, clobbered,
                   statusBarUpdateItem, prompts, styluaBinaryPath, registered,
                   configurationChanged, triggers, flows>>

(***************************************************************************)
(* The specification of the extension                                      *)
(***************************************************************************)
\* the settings a workspace starts with
InitialTargets == {EmptyStr, <<"1", ".", "9", ".", "0">>, <<"1", ".", "8">>}

Configurations ==
    {c \in [styluaPath : BOOLEAN, styluaRoactPath : BOOLEAN, searchBinaryInPATH : BOOLEAN,
            targetReleaseVersion : InitialTargets, releaseVersion : {Undefined},
            disableVersionCheck : BOOLEAN] :
        c.styluaRoactPath => c.styluaPath}

\* the binaries a machine can hold at the paths the settings name
Machines(c) ==
    [onPath : IF c.searchBinaryInPATH /\ ~c.styluaPath
              THEN {NoBinary, BrokenBinary, WorkingBinary(S_stylua),
                    WorkingBinary(VersionOutput(S_tag2))}
              ELSE IF c.searchBinaryInPATH
              THEN {NoBinary, WorkingBinary(VersionOutput(S_tag2))}
              ELSE {NoBinary},
     setting : IF c.styluaPath
               THEN {NoBinary, BrokenBinary, WorkingBinary(VersionOutput(S_tag2))}
               ELSE {NoBinary},
     reactSetting : IF c.styluaRoactPath
                    THEN {NoBinary, WorkingBinary(VersionOutput(S_tag1))}
                    ELSE {NoBinary}]

\* nothing of the extension runs
Quiescent ==
    /\ configuration = CHOOSE c \in Configurations :
            ~c.styluaPath /\ ~c.searchBinaryInPATH /\ ~c.disableVersionCheck
                /\ c.targetReleaseVersion = EmptyStr
    /\ env = [onPath |-> NoBinary, setting |-> NoBinary, reactSetting |-> NoBinary]
    /\ disk = Absent
    /\ writers = 0
    /\ clobbered = FALSE
    /\ authenticated = FALSE
    /\ reauthenticating = FALSE
    /\ statusBarUpdateItem = [visible |-> FALSE, release |-> NoRelease]
    /\ prompts = FALSE
    /\ styluaBinaryPath = NoInfo
    /\ registered = FALSE
    /\ configurationChanged = FALSE
    /\ triggers = 0
    /\ flows = [f \in FlowIds |-> IdleFlow]

\* activate is called: new GitHub(), new StyluaDownloader(...), and the
\* first ensureStyluaExists(cwdForVersionDetection)
Init ==
    /\ probe = NoProbe
    /\ configuration \in Configurations
    /\ env \in Machines(configuration)
    /\ disk \in {Absent, Installed(S_tag2)}
    /\ writers = 0
    /\ clobbered = FALSE
    /\ authenticated = FALSE
    /\ reauthenticating = FALSE
    /\ statusBarUpdateItem = [visible |-> FALSE, release |-> NoRelease]
    /\ prompts = FALSE
    /\ styluaBinaryPath = NoInfo
    /\ registered = FALSE
    /\ configurationChanged = FALSE
    /\ triggers = 0
    /\ flows = [f \in FlowIds |->
                    IF f = "activate" THEN StartPass(IdleFlow, "standard", 1) ELSE IdleFlow]

Pass ==
    \E f \in FlowIds :
        \/ FindStylua(f)
        \/ FileExists(f)
        \/ DownloadMissing(f)
        \/ DownloadRelease(f)
        \/ DownloadStream(f)
        \/ QueryVersion(f)
        \/ LatestRelease(f)
        \/ AuthenticatePrompt(f)
        \/ Authenticate(f)
        \/ Continue(f)

Next ==
    \/ Pass
    \/ Reinstall
    \/ AuthenticateCommand
    \/ SelectVersion
    \/ PickVersion
    \/ InstallUpdate
    \/ UpdateConfiguration
    \/ OnDidChangeConfiguration
    \/ OnDidChangeSessions
    \/ AuthenticateSilently

Spec == Init /\ [][Next]_vars

(***************************************************************************)
(* The payloads the parsing is tried on                                    *)
(***************************************************************************)
MaxAssets == 2
MaxListed == 1

SeqsUpTo(S, n) == UNION {[1..k -> S] : k \in 0..n}

JsonPrimitives == {JNull, JNum, JBool, JStr(S_tag2)}

JMissing == [t |-> "missing"]

\* the object holding the keys whose value is given
ObjectOf(fields) ==
    JObj([k \in {key \in DOMAIN fields : fields[key] # JMissing} |-> fields[k]])

JsonAssetObjects ==
    {ObjectOf([name |-> n, browser_download_url |-> u]) :
        n \in {JMissing, JStr(S_assetLinux), JNum}, u \in {JMissing, JStr(S_url), JNull}}

JsonAssets == JsonAssetObjects \cup {JNull, JNum, JStr(S_url)}

JsonAssetLists ==
    {JArr(a) : a \in SeqsUpTo(JsonAssets, MaxAssets)} \cup {JMissing, JStr(S_url), JNull}

JsonReleases ==
    {ObjectOf([tag_name |-> t, html_url |-> h, assets |-> a]) :
        t \in {JMissing, JStr(S_tag2), JNum},
        h \in {JMissing, JStr(S_url), JNull},
        a \in JsonAssetLists}

JsonReleaseInputs == JsonPrimitives \cup JsonReleases \cup {JArr(<< >>), JArr(<<JNum>>)}

JsonListElements ==
    JsonPrimitives \cup
    {j \in JsonReleases : "assets" \in DOMAIN j.v => j.v["assets"].t # "arr"
                                                      \/ Len(j.v["assets"].v) <= 1}

JsonListInputs ==
    JsonPrimitives \cup {JObj(<< >>), JObj([tag_name |-> JStr(S_tag2)])}
        \cup {JArr(a) : a \in SeqsUpTo(JsonListElements, MaxListed)}

(***************************************************************************)
(* The parsing specification                                               *)
(***************************************************************************)
InitJson == probe = NoProbe /\ Quiescent

ParseRelease ==
    \E j \in JsonReleaseInputs :
        /\ probe' = [op |-> "releaseFromJson", input |-> j, result |-> releaseFromJson(j)]
        /\ UNCHANGED mainVars

ParseAllReleases ==
    \E j \in JsonListInputs :
        /\ probe' = [op |-> "getAllReleases", input |-> j, result |-> releasesFromJson(j)]
        /\ UNCHANGED mainVars

NextJson == ParseRelease \/ ParseAllReleases

SpecJson == InitJson /\ [][NextJson]_vars

WellFormedRelease(r) ==
    /\ DOMAIN r = {"assets", "htmlUrl", "tagName"}
    /\ IsString(r.htmlUrl)
    /\ IsString(r.tagName)
    /\ \A i \in 1..Len(r.assets) :
        /\ DOMAIN r.assets[i] = {"downloadUrl", "name"}
        /\ IsString(r.assets[i].downloadUrl)
        /\ IsString(r.assets[i].name)

\* C5: parsing a release payload never throws: releaseFromJson yields a
\* well-formed ReleaseRecord for every JSON value, and getAllReleases yields
\* a list (empty for a non-array response) for every response body.
C5_ParsingNeverThrows ==
    /\ probe.op = "releaseFromJson" =>
        /\ ~probe.result.thrown
        /\ WellFormedRelease(probe.result.value)
    /\ probe.op = "getAllReleases" =>
        /\ ~probe.result.thrown
        /\ probe.input.t # "arr" => probe.result.value = << >>

(***************************************************************************)
(* The version check of the reconciler on its own                          *)
(***************************************************************************)
\* values of stylua.targetReleaseVersion
TargetSettings ==
    {EmptyStr, S_latest,
     <<"1", ".", "2", ".", "0">>, <<"v", "1", ".", "2", ".", "0">>,
     <<" ", "1", ".", "2", ".", "0", " ">>, <<"1", ".", "3", ".", "0">>,
     <<"1", ".", "2">>, <<"2">>, <<"1", ".", "2", ".", "0", "-", "b">>, <<"x">>}

\* what getStyluaVersion can return
VersionReports ==
    {Undefined, EmptyStr,
     <<"1", ".", "2", ".", "0">>, <<"v", "1", ".", "2", ".", "0">>,
     <<"1", ".", "3", ".", "0">>, <<"1", ".", "2", ".", "1">>,
     <<"2", ".", "0", ".", "0">>, <<"1", ".", "2">>,
     <<"1", ".", "2", ".", "0", "-", "b">>, <<"1", ".", "2", ".", "0", "+", "b">>,
     <<"x">>}

InitVersion == probe = NoProbe /\ Quiescent

\* stylua.version is known: getDesiredVersion() and the check that follows
Reconcile ==
    \E target \in TargetSettings, version \in VersionReports :
        LET desiredVersion ==
                getDesiredVersion([configuration EXCEPT !.targetReleaseVersion = target])
        IN  /\ probe' = [op |-> "reconcile", target |-> target,
                         desired |-> desiredVersion, installed |-> version,
                         result |-> IncorrectVersion(version, desiredVersion)]
            /\ UNCHANGED mainVars

NextVersion == Reconcile

SpecVersion == InitVersion /\ [][NextVersion]_vars

(***************************************************************************)
(* Commands invoked while stylua.reinstall runs                            *)
(***************************************************************************)
\* what activate leaves on the machine in the Bundled tier, the storage
\* directory empty before: the requested release installed, or nothing when
\* no asset of the release matched
ActivatedDisk(target) ==
    IF MatchingAsset(getRelease(target, "ok").value) = 0 THEN Absent
    ELSE Installed(getRelease(target, "ok").value.tagName)

\* activate has returned with the update item shown, and stylua.reinstall
\* has just been invoked
InitOverlap ==
    /\ probe = NoProbe
    /\ configuration \in {c \in Configurations :
            /\ ~c.styluaPath /\ ~c.searchBinaryInPATH /\ ~c.disableVersionCheck
            /\ c.targetReleaseVersion # EmptyStr}
    /\ env = [onPath |-> NoBinary, setting |-> NoBinary, reactSetting |-> NoBinary]
    /\ disk = ActivatedDisk(configuration.targetReleaseVersion)
    /\ writers = 0
    /\ clobbered = FALSE
    /\ authenticated = FALSE
    /\ reauthenticating = FALSE
    /\ statusBarUpdateItem = [visible |-> TRUE, release |-> getRelease(S_latest, "ok").value]
    /\ prompts = FALSE
    /\ styluaBinaryPath = [findStylua(configuration, env).info
                                EXCEPT !.version = getStyluaVersion(DiskBinary)]
    /\ registered = TRUE
    /\ configurationChanged = FALSE
    /\ triggers = 0
    /\ flows = [f \in FlowIds |->
                    CASE f = "activate" -> [IdleFlow EXCEPT !.pc = "done"]
                      [] f = "reinstall" ->
                            StartDownload(IdleFlow, getDesiredVersion(configuration), "reinstall")
                      [] OTHER -> IdleFlow]

SpecOverlap == InitOverlap /\ [][Next]_vars

(***************************************************************************)
(* Properties of the resolution pass                                       *)
(***************************************************************************)
\* the pass of flow f has a path for the requested variant
Resolving(f) == flows[f].stylua.resolveMode # "none"

\* the pass of flow f is in downloadStyluaVisual
Acquiring(f) ==
    flows[f].from = "pass" /\ flows[f].pc \in {"download", "dlRelease", "dlStream", "hung"}

\* C1: a pass that read an explicit stylua.styluaPath resolves in the
\* Configuration mode, has not called which and has not started a download,
\* whatever the other settings and whether or not the file exists.
C1_ExplicitPathNeitherSearchesNorDownloads ==
    \A f \in FlowIds :
        flows[f].settingPath =>
            /\ flows[f].stylua.resolveMode = "configuration"
            /\ ~flows[f].searched
            /\ ~flows[f].downloaded
            /\ ~Acquiring(f)

\* a pass with an explicit path has returned its binary while the search-path
\* lookup is enabled and a working binary is on the search path
C1_ExplicitPathUsed ==
    \E f \in FlowIds :
        /\ flows[f].settingPath
        /\ configuration.searchBinaryInPATH
        /\ Truthy(getStyluaVersion(env.onPath))
        /\ flows[f].pc = "return"
        /\ flows[f].returned.resolveMode = "configuration"
        /\ Truthy(flows[f].returned.version)

\* C2: an acquisition whose release has no asset matching the pattern never
\* completes as a success: downloadStylua resolves only after a matching
\* asset was written.
C2_NoMatchingAssetFails ==
    \A f \in FlowIds : flows[f].acquisition = "completed" => flows[f].matched

\* C3: a step that ends an acquisition without success (rejected, or left
\* pending for ever) leaves at the storage path the executable that was there
\* when the acquisition began.
C3_FailedAcquisitionKeepsBinary ==
    [][\A f \in FlowIds :
        (/\ flows[f].acquisition = "pending"
         /\ flows[f].pc \in {"dlRelease", "dlStream"}
         /\ flows'[f].pc \in {"failed", "hung"}
         /\ flows[f].diskBefore.state = "binary")
            => disk' = flows[f].diskBefore]_vars

\* flow f holds the write stream on the storage path open
Writing(f) == flows[f].pc = "dlStream"

\* flow f awaits fileExists or getStyluaVersion on the storage path
Reading(f) == flows[f].pc \in {"exists", "version"} /\ PathOf(flows[f]) = "download"

\* C4: at most one acquisition writes the storage path at a time, and no pass
\* tests or version-queries the bundled binary while an acquisition writes it.
C4_StoragePathExclusive ==
    /\ Cardinality({f \in FlowIds : Writing(f)}) <= 1
    /\ \A f, g \in FlowIds : Reading(f) => ~Writing(g)

\* C6: a reconciliation is re-run at most once after a re-authentication: a
\* failure of the latest-release fetch in the retried pass leads to no further
\* retry, whatever session changes arrive in between.
C6_RetriedOnce ==
    \A f \in FlowIds : flows[f].retries <= 1

\* the versions equal in major, minor, patch and prerelease
SameVersion(a, b) ==
    /\ a.major = b.major
    /\ a.minor = b.minor
    /\ a.patch = b.patch
    /\ a.prerelease = b.prerelease

\* C7: with a known installed version, no mismatch is raised when the desired
\* version is "latest"; otherwise one is raised if and only if the desired
\* version coerces to a semantic version, the installed version parses as a
\* full semantic version, and the two differ in major, minor, patch or
\* prerelease (desired 1.2.0 / installed 1.2.0: none; installed 1.3.0: raised).
C7_MismatchIffCoercedDiffersFromParsed ==
    probe.op = "reconcile" /\ Truthy(probe.installed) =>
        /\ probe.result =
            (/\ probe.desired # S_latest
             /\ SemverCoerce(probe.desired).ok
             /\ SemverParse(probe.installed).ok
             /\ ~SameVersion(SemverCoerce(probe.desired), SemverParse(probe.installed)))
        /\ probe.desired = <<"1", ".", "2", ".", "0">> =>
            /\ probe.installed = <<"1", ".", "2", ".", "0">> => ~probe.result
            /\ probe.installed = <<"1", ".", "3", ".", "0">> => probe.result

\* desired 1.2.0 against an installed 1.3.0 raised the mismatch
C7_MismatchRaised ==
    /\ probe.op = "reconcile"
    /\ probe.desired = <<"1", ".", "2", ".", "0">>
    /\ probe.installed = <<"1", ".", "3", ".", "0">>
    /\ probe.result

\* C7 as stated: with a known installed version, a mismatch is raised if and
\* only if the desired version is not "latest", both version strings coerce
\* to semantic versions, and the coerced versions differ.
C7_MismatchIffBothCoercedDiffer ==
    probe.op = "reconcile" /\ Truthy(probe.installed) =>
        probe.result =
            (/\ probe.desired # S_latest
             /\ SemverCoerce(probe.desired).ok
             /\ SemverCoerce(probe.installed).ok
             /\ ~SameVersion(SemverCoerce(probe.desired), SemverCoerce(probe.installed)))

\* C8: the step that receives the latest release hides the update item when
\* the tag without its leading "v" is the installed version string, and
\* otherwise shows it with exactly the release received.
C8_UpdateItemFollowsLatest ==
    [][\A f \in FlowIds :
        (flows[f].pc = "latest" /\ flows'[f].pc = "return" /\ flows'[f].latest # NoRelease) =>
            LET tag == flows'[f].latest.tagName
                stripped == IF Len(tag) > 0 /\ Head(tag) = "v" THEN Tail(tag) ELSE tag
            IN  IF stripped = flows[f].stylua.version
                THEN ~statusBarUpdateItem'.visible
                ELSE statusBarUpdateItem' = [visible |-> TRUE, release |-> flows'[f].latest]]_vars

\* latest v2.0.0 was received with 1.9.0 installed, and the item shows the
\* v2.0.0 release
C8_UpdateShown ==
    \E f \in FlowIds :
        /\ flows[f].pc = "return"
        /\ flows[f].latest.tagName = S_tag2
        /\ flows[f].stylua.version = Slice(S_tag1, 1)
        /\ statusBarUpdateItem = [visible |-> TRUE, release |-> flows[f].latest]

\* C9: a pass resolves in the PATH mode only if the binary which found
\* answers the version query; when which finds a binary that does not, the
\* pass resolves in the Bundled mode and never returns the binary found.
C9_SearchPathBinaryNeedsVersion ==
    \A f \in FlowIds :
        /\ flows[f].stylua.resolveMode = "PATH" =>
            /\ ~flows[f].settingPath
            /\ configuration.searchBinaryInPATH
            /\ env.onPath.exists
            /\ env.onPath.output # ExecError
        /\ (flows[f].searched /\ Resolving(f) /\ env.onPath.exists /\ env.onPath.output = ExecError) =>
            /\ flows[f].stylua.resolveMode = "bundled"
            /\ flows[f].returned.resolveMode \in {"none", "bundled"}

\* which found a binary that fails the version query, and the pass returned
\* the bundled one
C9_BrokenBinarySkipped ==
    \E f \in FlowIds :
        /\ flows[f].searched
        /\ env.onPath = BrokenBinary
        /\ flows[f].pc = "return"
        /\ flows[f].returned.resolveMode = "bundled"

\* the pass of flow f is past fileExists in the Configuration mode, and the
\* configured file of the requested variant does not exist
ConfiguredPathMissing(f) ==
    /\ flows[f].stylua.resolveMode = "configuration"
    /\ flows[f].pc \notin {"exists", "idle", "done"}
    /\ ~BinaryAt(PathOf(flows[f])).exists

\* C10: in the Configuration mode, when the configured file of the requested
\* variant does not exist, the pass shows the error and returns no binary; it
\* neither searches the path nor downloads the bundled copy.
C10_MissingConfiguredPathFails ==
    \A f \in FlowIds :
        ConfiguredPathMissing(f) =>
            /\ flows[f].pc = "return"
            /\ flows[f].returned = NoInfo
            /\ flows[f].error = "The path given for StyLua does not exist"
            /\ ~flows[f].searched
            /\ ~flows[f].downloaded

\* a pass found the configured file missing while the search-path lookup is
\* enabled
C10_MissingPathReported ==
    \E f \in FlowIds :
        /\ ConfiguredPathMissing(f)
        /\ configuration.searchBinaryInPATH
        /\ flows[f].returned = NoInfo

(***************************************************************************)
(* Properties of the Bundled case                                          *)
(***************************************************************************)
\* C11: in the Bundled case the step after fileExists starts the download
\* exactly when the file at the storage path does not exist; a pass starts a
\* download only there, of getDesiredVersion(); and the pass comes to
\* getStyluaVersion only from fileExists with the file there, or from the
\* step that resolves the download it awaits.
C11_DownloadIffMissingThenVersion ==
    [][\A f \in FlowIds :
        LET before == flows[f]
            after == flows'[f]
        IN  /\ (/\ before.pc = "exists"
                /\ after.pc # "exists"
                /\ before.stylua.resolveMode = "bundled") =>
                    /\ after.pc \in {"download", "version"}
                    /\ after.pc = "download" <=> disk.state = "absent"
            /\ (after.pc = "dlRelease" /\ before.pc # "dlRelease" /\ after.from = "pass") =>
                    /\ before.pc = "download"
                    /\ before.stylua.resolveMode = "bundled"
                    /\ after.version = getDesiredVersion(configuration)
                    /\ after.acquisition = "pending"
            /\ (/\ after.pc = "version"
                /\ before.pc # "version"
                /\ before.stylua.resolveMode = "bundled") =>
                    \/ before.pc = "exists" /\ disk.state # "absent" /\ ~before.downloaded
                    \/ /\ before.downloaded
                       /\ before.pc \in {"dlRelease", "dlStream"}
                       /\ before.acquisition = "pending"
                       /\ after.acquisition = "completed"]_vars

\* a Bundled pass found no file, awaited the download of a matching asset and
\* is at getStyluaVersion with the binary written
C11_DownloadedThenQueried ==
    \E f \in FlowIds :
        /\ flows[f].stylua.resolveMode = "bundled"
        /\ flows[f].pc = "version"
        /\ flows[f].downloaded
        /\ flows[f].acquisition = "completed"
        /\ flows[f].matched
        /\ disk.state = "binary"

(***************************************************************************)
(* getRelease on its own                                                   *)
(***************************************************************************)
MaxScanned == 3

\* the tags and the records getAllReleases can return; the htmlUrl tells two
\* records with one tag apart
ScannedTags ==
    {S_tag2, S_tag1, <<"v", "1", ".", "9", "0">>, <<"1", ".", "9", ".", "0">>}

ScannedReleases ==
    {[assets |-> << >>, htmlUrl |-> h, tagName |-> t] :
        h \in {S_url, <<"w">>}, t \in ScannedTags}

\* the versions asked for, none of them "latest"
RequestedVersions ==
    {EmptyStr, <<"v">>, <<"1", ".", "9">>, <<"v", "1", ".", "9">>, <<"1", ".", "9", ".", "0">>,
     <<"v", "2">>, <<"2", ".", "0", ".", "0">>, <<"v", "3">>, <<"9">>}

InitScan == probe = NoProbe /\ Quiescent

\* getRelease(version) once getAllReleases has returned
ScanRelease ==
    /\ probe = NoProbe
    /\ \E version \in RequestedVersions, releases \in SeqsUpTo(ScannedReleases, MaxScanned) :
        probe' = [op |-> "getRelease", version |-> version, releases |-> releases,
                  result |-> ScanReleases(version, releases)]
    /\ UNCHANGED mainVars

NextScan == ScanRelease

SpecScan == InitScan /\ [][NextScan]_vars

\* the version with the prefix it must carry
Prefixed(version) ==
    IF Len(version) > 0 /\ Head(version) = "v" THEN version ELSE <<"v">> \o version

\* the positions of the records whose tag starts with the prefixed version
Candidates(version, releases) ==
    {i \in 1..Len(releases) :
        /\ Len(releases[i].tagName) >= Len(Prefixed(version))
        /\ SubSeq(releases[i].tagName, 1, Len(Prefixed(version))) = Prefixed(version)}

\* C12: getRelease for a version other than "latest" returns the first
\* record of the list whose tag starts with the version carrying its "v", and
\* throws NoReleaseFoundError exactly when no record's tag starts with it.
C12_FirstReleaseWithPrefixedTag ==
    probe.op = "getRelease" =>
        LET candidates == Candidates(probe.version, probe.releases) IN
        IF candidates = {}
        THEN probe.result.thrown /\ probe.result.error = "NoReleaseFoundError"
        ELSE /\ ~probe.result.thrown
             /\ \E i \in candidates :
                /\ \A j \in candidates : i <= j
                /\ probe.result.value = probe.releases[i]

\* "1.9" was asked for, two records with different tags start with "v1.9",
\* and the first of them came back
C12_FirstOfTwo ==
    /\ probe.op = "getRelease"
    /\ probe.version = <<"1", ".", "9">>
    /\ Len(probe.releases) = 3
    /\ probe.releases[1].tagName = S_tag2
    /\ probe.releases[2].tagName = <<"v", "1", ".", "9", "0">>
    /\ probe.releases[3].tagName = S_tag1
    /\ ~probe.result.thrown
    /\ probe.result.value = probe.releases[2]

\* the execution of the binary for its version fails
ExecutionFails(binary) == ~binary.exists \/ binary.output = ExecError

SessionInvalidated == ~authenticated' /\ reauthenticating' /\ flows' = flows

\* a step that ends a call of GitHub.authenticate: the handler's, a pass's or
\* the stylua.authenticate command's
AuthenticateEnds ==
    \/ reauthenticating /\ ~reauthenticating' /\ flows' = flows
    \/ \E f \in FlowIds : flows[f].pc = "authenticating" /\ flows'[f].pc # "authenticating"
    \/ triggers' = triggers + 1 /\ flows' = flows

\* C14: the credential changes only in a step that ends a call of
\* authenticate or in a step of the session handler for github; the step
\* that puts the handler's authenticate(false) under way leaves the
\* credential cleared; no other step, a session change of another provider
\* included, changes it.
C14_CredentialChangesOnlyByAuthentication ==
    [][/\ authenticated' # authenticated => SessionInvalidated \/ AuthenticateEnds
       /\ (~reauthenticating /\ reauthenticating') => ~authenticated']_vars

\* a pass had obtained a session and re-run, and a session change of github
\* has cleared the credential, authenticate(false) still under way
C14_ClearedBySessionChange ==
    /\ ~authenticated
    /\ reauthenticating
    /\ \E f \in FlowIds : flows[f].retries = 1 /\ flows[f].pc = "exists"

(***************************************************************************)
(* The asset filename pattern on its own: a pattern is built for a         *)
(* platform and an architecture and tested against one artifact name       *)
(***************************************************************************)
MaxVersionLen == 3

\* the characters the artifact versions are written with
ArtifactVersionChars == {"0", "2", ".", "-", "w"}

ArtifactVersions ==
    UNION {[1..n -> ArtifactVersionChars] : n \in 1..MaxVersionLen}

\* the platform fragments the artifacts of each platform carry
PlatformFragments ==
    [win32 |-> {<<"w", "i", "n", "d", "o", "w", "s">>, <<"w", "i", "n", "6", "4">>},
     linux |-> {<<"l", "i", "n", "u", "x">>},
     darwin |-> {<<"m", "a", "c", "o", "s">>}]

\* the architecture fragment the artifacts of each architecture carry
ArchitectureFragments ==
    [arm64 |-> <<"a", "a", "r", "c", "h", "6", "4">>,
     x64 |-> <<"x", "8", "6", "_", "6", "4">>]

SupportedPlatforms == DOMAIN PlatformFragments
SupportedArchitectures == DOMAIN ArchitectureFragments

\* process.arch may be an architecture the switch has no case for
Architectures == SupportedArchitectures \cup {"ia32"}

\* stylua-<ver>-<platform fragment>-<arch fragment>.zip
ArtifactName(version, platformFragment, architectureFragment) ==
    S_stylua \o <<"-">> \o version \o <<"-">> \o platformFragment
        \o <<"-">> \o architectureFragment \o <<".">> \o S_zip

InitPattern == probe = NoProbe /\ Quiescent

\* getAssetFilenamePatternForPlatform(platform, architecture).test(name)
TestPattern ==
    /\ probe = NoProbe
    /\ \E platform \in SupportedPlatforms, architecture \in Architectures,
          version \in ArtifactVersions,
          fragmentOf \in SupportedPlatforms, architectureOf \in SupportedArchitectures :
        \E platformFragment \in PlatformFragments[fragmentOf] :
            LET name == ArtifactName(version, platformFragment,
                                     ArchitectureFragments[architectureOf])
            IN  probe' = [op |-> "pattern",
                          platform |-> platform,
                          architecture |-> architecture,
                          fragmentOf |-> fragmentOf,
                          architectureOf |-> architectureOf,
                          name |-> name,
                          result |-> PatternTest(
                              getAssetFilenamePatternForPlatform(platform, architecture),
                              name)]
    /\ UNCHANGED mainVars

NextPattern == TestPattern

SpecPattern == InitPattern /\ [][NextPattern]_vars

\* C15: for a supported platform and a supported architecture, the pattern
\* matches the artifact name that carries a fragment of that platform and
\* the fragment of that architecture, and matches no artifact name whose
\* platform fragment is the one of another platform.
C15_PatternMatchesOwnPlatformOnly ==
    (probe.op = "pattern" /\ probe.architecture \in SupportedArchitectures) =>
        /\ (probe.fragmentOf = probe.platform /\ probe.architectureOf = probe.architecture)
                => probe.result
        /\ probe.fragmentOf # probe.platform => ~probe.result

\* the pattern for win32 on x64 matched stylua-0.2-win64-x86_64.zip
C15_OwnArtifactMatched ==
    /\ probe.op = "pattern"
    /\ probe.platform = "win32"
    /\ probe.architecture = "x64"
    /\ probe.name = ArtifactName(<<"0", ".", "2">>, <<"w", "i", "n", "6", "4">>,
                                 ArchitectureFragments["x64"])
    /\ probe.result

(***************************************************************************)
(* The version query on its own: a binary prints "stylua " and a version,  *)
(* with whitespace around them, and getStyluaVersion reads it              *)
(***************************************************************************)
MaxReportedLen == 3

\* the characters of the versions printed: of numbers, of tags, and blanks
ReportedChars == {"1", ".", "b", " "}

ReportedVersions == UNION {[1..n -> ReportedChars] : n \in 0..MaxReportedLen}

\* what may surround the printed line
Paddings == {EmptyStr, <<" ">>, <<"\n">>, <<" ", "\n">>}

InitReport == probe = NoProbe /\ Quiescent

\* getStyluaVersion(path) of a binary that prints "stylua " and the version
ReadVersion ==
    /\ probe = NoProbe
    /\ \E version \in ReportedVersions, leading \in Paddings, trailing \in Paddings :
        LET output == leading \o S_styluaSpace \o version \o trailing IN
        probe' = [op |-> "getStyluaVersion", version |-> version, output |-> output,
                  result |-> getStyluaVersion(WorkingBinary(output))]
    /\ UNCHANGED mainVars

NextReport == ReadVersion

SpecReport == InitReport /\ [][NextReport]_vars

\* C16: when the binary prints "stylua " followed by a version, with or
\* without whitespace around the line, getStyluaVersion returns exactly that
\* version, for every version that does not itself end in whitespace.
C16_VersionReadBack ==
    (probe.op = "getStyluaVersion" /\ TrimEnd(probe.version) = probe.version) =>
        probe.result = probe.version

\* " stylua 1.1\n" was printed and "1.1" was read
C16_PaddedVersionRead ==
    /\ probe.op = "getStyluaVersion"
    /\ probe.output = <<" ">> \o S_styluaSpace \o <<"1", ".", "1", "\n">>
    /\ probe.result = <<"1", ".", "1">>

(***************************************************************************)
(* Properties of failures                                                  *)
(***************************************************************************)
\* C17: once a matching asset is being written, an error of the write stream
\* or of the decompression ends the acquisition as a failure: the promise of
\* downloadStylua is rejected.
C17_StreamErrorRejects ==
    [][\A f \in FlowIds :
        (/\ flows[f].pc = "dlStream"
         /\ flows'[f].pc # "dlStream"
         /\ flows'[f].fault \in {"writeError", "unzipError"})
            => flows'[f].acquisition = "failed"]_vars

\* a step of flow f in which a fetch of releases fails: the latest-release
\* check of a pass, the lookup of a release the remote has by downloadStylua,
\* or the listing for the quick pick
FetchFails(f) ==
    \/ flows[f].pc = "latest" /\ flows'[f].error # "none"
    \/ /\ flows[f].pc = "dlRelease"
       /\ flows'[f].pc = "failed"
       /\ ~getRelease(flows[f].version, "ok").thrown
    \/ flows[f].pc = "pick" /\ flows'[f].pc = "failed"

\* C18: whenever a fetch of releases fails while no credential is held, in a
\* pass's latest-release check or in an acquisition started by a pass or by
\* a command, the user is offered to authenticate.
C18_FetchFailureOffersAuthentication ==
    [][\A f \in FlowIds :
        (~authenticated /\ FetchFails(f)) => flows'[f].pc = "authPrompt"]_vars

\* C19: a rate-limited or otherwise unsuccessful response never comes back
\* from getRelease as a release: whenever the latest-release check of a pass
\* goes on without an error, the release it got is the one the remote serves.
C19_UnsuccessfulResponseThrows ==
    [][\A f \in FlowIds :
        (/\ flows[f].pc = "latest"
         /\ flows'[f].pc # "latest"
         /\ flows'[f].error = "none")
            => flows'[f].latest = releaseFromJson(RemoteLatest).value]_vars

\* a step of flow f that ends the catch block of the latest-release check
\* without a retry: the fetch failed with a credential held, the offer to
\* authenticate was not taken, or authenticate yielded false
WarningOnly(f) ==
    \/ /\ flows[f].pc = "latest"
       /\ flows'[f].pc # "latest"
       /\ authenticated
       /\ flows'[f].latest = NoRelease
    \/ flows[f].pc = "authPrompt" /\ flows'[f].pc \notin {"authPrompt", "authenticating"}
    \/ flows[f].pc = "authenticating" /\ flows'[f].pc # "authenticating" /\ ~authenticated'

\* C20: when the latest-release fetch of a Bundled pass fails and a
\* credential is held, the offer is declined or authentication yields none,
\* the pass returns the binary it resolved with the version it queried, the
\* failure shown as a warning only.
C20_FetchFailureStillReturns ==
    [][\A f \in FlowIds :
        WarningOnly(f) =>
            /\ flows'[f].pc = "return"
            /\ flows'[f].returned = flows[f].stylua
            /\ flows'[f].returned.resolveMode = "bundled"
            /\ flows'[f].error # "none"]_vars

\* a Bundled pass has returned a working binary with its version after the
\* warning, no credential held
C20_ReturnedAfterWarning ==
    \E f \in FlowIds :
        /\ flows[f].pc = "return"
        /\ flows[f].error # "none"
        /\ ~authenticated
        /\ flows[f].returned.resolveMode = "bundled"
        /\ Truthy(flows[f].returned.version)
        /\ flows[f].returned.version = getStyluaVersion(DiskBinary)

(***************************************************************************)
(* Properties of the reconciliation                                        *)
(***************************************************************************)
\* C21: in whichever mode the binary was resolved, the step that follows the
\* version query raises the mismatch prompt when the version differs from
\* the requested one and, unless the version check is disabled, goes on to
\* the comparison with the latest release.
C21_EveryTierReconciles ==
    [][\A f \in FlowIds :
        (flows[f].pc = "version" /\ flows'[f].pc # "version") =>
            /\ IncorrectVersion(flows'[f].stylua.version, getDesiredVersion(configuration))
                    => prompts'
            /\ ~configuration.disableVersionCheck => flows'[f].pc = "latest"]_vars

(***************************************************************************)
(* Properties of the shared resolved binary                                *)
(***************************************************************************)
\* the step in which handler f assigns what its pass returned to
\* styluaBinaryPath
Assigns(f) ==
    /\ flows[f].pc = "return"
    /\ flows'[f].pc # "return"
    /\ f = "configChange" \/ flows[f].passNo = 1

\* C22: when calls of the handlers overlap, a call never assigns the shared
\* styluaBinaryPath after a call that began later has assigned it: the value
\* left when all have finished is the one of the call that began last.
C22_LatestTriggeredPassWins ==
    [][\A f \in FlowIds : Assigns(f) => ~flows[f].overtaken]_vars

(***************************************************************************)
(* Properties of the update check                                          *)
(***************************************************************************)
\* the step of flow f that follows the version query
AfterVersion(f) == flows[f].pc = "version" /\ flows'[f].pc # "version"

InitLive ==
    /\ Init
    /\ ~configuration.styluaPath
    /\ ~configuration.searchBinaryInPATH
    /\ ~configuration.disableVersionCheck
    /\ configuration.targetReleaseVersion = <<"1", ".", "9", ".", "0">>
    /\ disk = Absent

\* the end of getRelease and the end of the asset's stream are delivered
SpecLive ==
    /\ InitLive
    /\ [][Next]_vars
    /\ \A f \in FlowIds : WF_vars(DownloadRelease(f)) /\ WF_vars(DownloadStream(f))

\* C24: every acquisition for which an asset matched eventually settles, as
\* a completion or as a failure, whatever becomes of the asset's download
\* and of the archive's entries.
C24_AcquisitionSettles ==
    \A f \in FlowIds :
        (flows[f].acquisition = "pending" /\ flows[f].matched)
            ~> (flows[f].acquisition # "pending")

(***************************************************************************)
(* The reinstall of a numbered version on its own: getRelease selects a    *)
(* release, its binary is installed, and the pass that follows compares    *)
(* what the binary prints with the version asked for                       *)
(***************************************************************************)
\* the numbered versions a workspace can ask for
ReinstalledVersions == (RequestedVersions \ {EmptyStr}) \cup {<<"1">>}

InitReinstall == probe = NoProbe /\ Quiescent

\* stylua.reinstall with targetReleaseVersion = version, the download done:
\* getRelease(version), then getStyluaVersion and the check at 112-120
ReinstallVersion ==
    /\ probe = NoProbe
    /\ \E version \in ReinstalledVersions, releases \in SeqsUpTo(ScannedReleases, MaxScanned) :
        LET release == ScanReleases(version, releases)
            installed == IF release.thrown THEN Undefined
                         ELSE getStyluaVersion(WorkingBinary(VersionOutput(release.value.tagName)))
        IN  probe' = [op |-> "reinstall", version |-> version, releases |-> releases,
                      release |-> release, installed |-> installed,
                      mismatch |-> IncorrectVersion(installed, version)]
    /\ UNCHANGED mainVars

NextReinstall == ReinstallVersion

SpecReinstall == InitReinstall /\ [][NextReinstall]_vars

\* C25: when the release getRelease selected for a numbered version has been
\* installed by stylua.reinstall, the pass that follows raises no mismatch
\* for that version, so the prompt and the reinstall do not repeat.
C25_ReinstallEndsMismatch ==
    (probe.op = "reinstall" /\ ~probe.release.thrown) => ~probe.mismatch

====
